---- MODULE Spec2Model ----
(***************************************************************************)
(* MediaMapMaker: create_html_map / add_sidebar_to_html (the generator,    *)
(* Python) and applyFilters / clearTimeFilter (the filter script the       *)
(* generator writes into the document, JavaScript); map_viewer.main (the    *)
(* server that shows a generated document).                                *)
(*                                                                         *)
(* Cells of the input tables are tagged pairs <<kind, n>>:                 *)
(*   a datetime cell is <<"nan",0>> (empty), <<"text",0>> (text that       *)
(*   pd.to_datetime cannot parse) or <<"ts",t>> (a timestamp, t counted in *)
(*   slots of a day);  a coordinate cell is "" (empty) or the Python repr  *)
(*   of the float it holds;  an accuracy cell is "nan", a repr, or "bad"   *)
(*   (text float() rejects).                                               *)
(*                                                                         *)
(* A row of the frame has the cells of the columns lat_col and lon_col in  *)
(* lat and lon, and what the columns named 'latitude', 'longitude' and     *)
(* 'title' give the sidebar in latitude, longitude and sideTitle.          *)
(***************************************************************************)
EXTENDS Integers, Sequences, FiniteSets, TLC

VARIABLES
    inputFile,        \* input_path: whether it is on disk, and its suffix
    cols,             \* lat_col, lon_col, title_col: the defaults or other names
    primary,          \* rows of the primary source (input_file)
    master,           \* rows of MasterMapData.csv
    masterExists,     \* Path("MasterMapData.csv").exists()
    hasDateCol,       \* the primary source has a 'date' column
    pc,               \* position in create_html_map / the page's life
    df,               \* the merged, coordinate-filtered frame
    pos,              \* next row of the marker loop
    clusters,         \* marker membership of the four MarkerClusters
    circles,          \* accuracy_group
    marker_data,      \* marker_data list
    stats,            \* stats dict
    leaves,           \* .file-item elements of the sidebar, document order
    allMarkers,       \* window.allMarkers
    attached,         \* map_object.hasLayer(cluster)
    filter,           \* the filter controls of the sidebar
    itemDisplay,      \* style.display of each .file-item
    timeGroupDisplay, \* style.display of each .time-group
    dateGroupDisplay, \* style.display of each .date-group
    timerPending,     \* the setTimeout of the DOMContentLoaded handler
    applied,          \* applyFilters has been invoked in this page
    reapplied,        \* its last two invocations read the same controls
    threw,            \* its last invocation ended in an uncaught exception
    viewer            \* map_viewer.main: its position, the disk, the port

genVars == <<inputFile, cols, primary, master, masterExists, hasDateCol, pc, df, pos,
             clusters, circles, marker_data, stats, leaves>>
docVars == <<allMarkers, attached, filter, itemDisplay, timeGroupDisplay,
             dateGroupDisplay, timerPending, applied, reapplied, threw>>
vars == <<viewer, inputFile, cols, primary, master, masterExists, hasDateCol, pc, df, pos,
          clusters, circles, marker_data, stats, leaves,
          allMarkers, attached, filter, itemDisplay, timeGroupDisplay,
          dateGroupDisplay, timerPending, applied, reapplied, threw>>

-----------------------------------------------------------------------------
(* Bounds *)

MaxRows == 3
MaxTime == 3
SlotsPerDay == 2
MaxDocRows == 2
MaxDocTime == 2
MaxAltRows == 1
MaxKeyRows == 2

-----------------------------------------------------------------------------
(* Input tables *)

Stamps == {<<"ts", t>> : t \in 1..MaxTime}
NaNCell == <<"nan", 0>>
TextCell == <<"text", 0>>
NaT == <<"NaT", 0>>
EmptyAttr == <<"", 0>>

Lats == {"", "40.5"}
Lons == {"", "-74.0", "-74.5"}

VideoExts == {".mp4", ".mov", ".avi", ".wmv", ".mkv", ".webm", ".m4v"}
ImageExts == {".jpg", ".jpeg", ".png", ".gif", ".bmp", ".tiff", ".tif"}
SidebarVideoExts == {".mp4", ".mov", ".avi", ".wmv"}

\* a row of the primary source: media_path is named by its extension ("" is an
\* empty cell) and by whether the file is on disk; date is an empty cell or
\* the first day written as %Y-%m-%d; acc is the cell of an accuracy_meters
\* column ("nan" when the file has no such column or the cell is empty)
PrimaryRowType ==
    [lat : Lats, lon : Lons, datetime : {NaNCell} \cup Stamps,
     date : {NaNCell, <<"ymd", 1>>},
     ext : {"", ".jpg", ".mp4", ".mkv", ".pdf"}, exists : BOOLEAN,
     acc : {"nan", "5.0"}]

\* a row of MasterMapData.csv: att is ('ATT Location' in Event)
MasterRowType ==
    [lat : Lats, lon : Lons, datetime : {NaNCell, TextCell} \cup Stamps,
     att : BOOLEAN, acc : {"nan", "5.0", "bad"}]

\* the rows the generator is run on: a base row, and the rows that differ from
\* it in one respect (the coordinates, the date and time, or the media file)
PrimaryRows ==
    {r \in PrimaryRowType :
        LET coords == r.lat = "40.5" /\ r.lon = "-74.5"
            stamp == r.datetime = <<"ts", 1>> /\ r.date = NaNCell
            media == r.ext = ".jpg" /\ r.exists
        IN  /\ r.lon # "-74.0" /\ ~(r.lat = "" /\ r.lon = "")
            /\ r.date # NaNCell => r.datetime = NaNCell
            /\ r.ext = "" => ~r.exists
            /\ r.ext \in {".jpg", ".mkv"} => r.exists
            /\ r.acc # "nan" => coords /\ stamp /\ media
            /\ r.ext = ".pdf" => r.exists /\ coords /\ stamp
            /\ (coords /\ stamp) \/ (coords /\ media) \/ (stamp /\ media)}

MasterRows ==
    {r \in MasterRowType :
        LET coords == r.lat = "40.5" /\ r.lon = "-74.5"
            stamp == r.datetime = <<"ts", 1>>
            event == r.att /\ r.acc = "5.0"
        IN  /\ r.lon # "-74.0" /\ ~(r.lat = "" /\ r.lon = "")
            /\ ~r.att => r.acc = "5.0"
            /\ (coords /\ stamp) \/ (coords /\ event) \/ (stamp /\ event)}

\* input_path.suffix, and what .lower() makes of it
InputSuffixes == {".csv", ".XLSX", ".txt"}

SuffixLower(suffix) ==
    CASE suffix = ".XLSX" -> ".xlsx"
      [] OTHER -> suffix

InputFiles == [exists : BOOLEAN, suffix : InputSuffixes]

CsvOnDisk == [exists |-> TRUE, suffix |-> ".csv"]

RECURSIVE SeqsUpTo(_, _)
SeqsUpTo(S, n) ==
    IF n = 0 THEN {<<>>}
    ELSE LET shorter == SeqsUpTo(S, n - 1)
         IN  shorter \cup {Append(s, x) : s \in {t \in shorter : Len(t) = n - 1}, x \in S}

ClusterNames == {"image", "video", "att_location", "ankle_monitor"}

-----------------------------------------------------------------------------
(* create_html_map: loading, merging, the coordinate filter *)

\* the names create_html_map is called with: the defaults ('latitude',
\* 'longitude', 'title'), or the names the primary source gives its columns
ColumnChoices == {"default", "custom"}

\* row.get('latitude', 0) of a primary row as the sidebar formats it: the cell,
\* or 0 when no column has that name, or nan when only the secondary source
\* brought the column
NamedCell(cell, withMaster, c) ==
    IF c = "default" THEN cell
    ELSE IF withMaster THEN "nan" ELSE "0"

EventLabel(att) == IF att THEN "ATT Location" ELSE "Ankle Monitor Fix"

\* the primary frame as it enters the marker loop: with a secondary source,
\* data_source and accuracy_meters are the values lines 978-979 write; without
\* one, data_source is the default the loop reads and accuracy_meters is the
\* file's own column
PrimaryFrameRow(r, withMaster, dateCol, c) ==
    [src |-> "MediaMarkers", lat |-> r.lat, lon |-> r.lon,
     latitude |-> NamedCell(r.lat, withMaster, c),
     longitude |-> NamedCell(r.lon, withMaster, c),
     title |-> "photo",
     sideTitle |-> IF c = "default" THEN "photo"
                   ELSE IF withMaster THEN "nan" ELSE "Untitled",
     datetime |-> r.datetime,
     date |-> IF dateCol THEN r.date
              ELSE IF withMaster THEN NaNCell ELSE <<"absent", 0>>,
     time |-> IF withMaster THEN NaNCell ELSE <<"absent", 0>>,
     ext |-> r.ext, exists |-> r.exists, att |-> FALSE,
     acc |-> IF withMaster THEN "0" ELSE r.acc]

\* variant: the secondary rows keep a media reference of their own
MasterFrameRowKeepingMedia(r, c) ==
    [src |-> "MasterMapData",
     lat |-> IF c = "default" THEN r.lat ELSE "",
     lon |-> IF c = "default" THEN r.lon ELSE "",
     latitude |-> r.lat, longitude |-> r.lon,
     title |-> IF c = "default" THEN EventLabel(r.att) ELSE "nan",
     sideTitle |-> EventLabel(r.att),
     datetime |-> r.datetime, date |-> r.datetime, time |-> EmptyAttr,
     ext |-> ".jpg", exists |-> TRUE, att |-> r.att, acc |-> r.acc]

\* a row of MasterMapData.csv after the renaming and the added columns: its
\* coordinates and event label are in 'latitude', 'longitude' and 'title', so
\* the columns of other names are empty on it
MasterFrameRow(r, c) ==
    [src |-> "MasterMapData",
     lat |-> IF c = "default" THEN r.lat ELSE "",
     lon |-> IF c = "default" THEN r.lon ELSE "",
     latitude |-> r.lat, longitude |-> r.lon,
     title |-> IF c = "default" THEN EventLabel(r.att) ELSE "nan",
     sideTitle |-> EventLabel(r.att),
     datetime |-> r.datetime, date |-> r.datetime, time |-> EmptyAttr,
     ext |-> "", exists |-> FALSE, att |-> r.att, acc |-> r.acc]

Labelled(rows) ==
    [i \in 1..Len(rows) |-> [idx |-> i - 1, row |-> rows[i]]]

MergeFrames(prim, mast, withMaster, dateCol, c) ==
    Labelled(
        [i \in 1..Len(prim) |-> PrimaryFrameRow(prim[i], withMaster, dateCol, c)]
        \o (IF withMaster THEN [i \in 1..Len(mast) |-> MasterFrameRow(mast[i], c)]
            ELSE <<>>))

\* variant: any file that is on disk is read
ReadableAny(file) == file.exists

\* the two early returns: the path exists, and its suffix names a format
Readable(file) ==
    /\ file.exists
    /\ SuffixLower(file.suffix) \in {".csv", ".xlsx", ".xls"}

\* variant: dropna(how='all'), keeping a row that has either coordinate
DropNaAll(frame) ==
    SelectSeq(frame, LAMBDA e : e.row.lat # "" \/ e.row.lon # "")

DropNa(frame) ==
    SelectSeq(frame, LAMBDA e : e.row.lat # "" /\ e.row.lon # "")

-----------------------------------------------------------------------------
(* create_html_map: one iteration of the marker loop *)

EmptyStats ==
    [total |-> 0, with_media |-> 0, images |-> 0, videos |-> 0,
     no_media |-> 0, att_location |-> 0, ankle_monitor |-> 0]

EmptyClusters == [c \in ClusterNames |-> {}]

EmptyRender ==
    [clusters |-> EmptyClusters, circles |-> {}, marker_data |-> <<>>,
     stats |-> EmptyStats]

\* float(row.get('accuracy_meters', 0)) raises on text
RowRaises(row) == row.acc = "bad"

HasMedia(row) == row.ext # "" /\ row.exists

IsVideoMarker(row) == HasMedia(row) /\ row.ext \in VideoExts

MarkerType(row) ==
    IF row.src = "MasterMapData"
    THEN (IF row.att THEN "att_location" ELSE "ankle_monitor")
    ELSE (IF IsVideoMarker(row) THEN "video" ELSE "image")

FoliumColor(row) ==
    IF row.src = "MasterMapData"
    THEN (IF row.att THEN "lightgreen" ELSE "orange")
    ELSE "blue"

CircleColor(color) ==
    CASE color = "lightgreen" -> "#90EE90"
      [] color = "orange" -> "#FFA500"
      [] OTHER -> "#0000FF"

AccuracyPositive(row) == row.acc \notin {"nan", "0"}

\* str(row.get('datetime', '')) if pd.notna(...) else ''
DatetimeText(cell) == IF cell = NaNCell THEN EmptyAttr ELSE cell

\* variant: no_media counts the rows that name no file
MediaStatsOfReferences(st, row) ==
    [st EXCEPT
        !.with_media = @ + (IF HasMedia(row) THEN 1 ELSE 0),
        !.images = @ + (IF HasMedia(row) /\ row.ext \in ImageExts THEN 1 ELSE 0),
        !.videos = @ + (IF HasMedia(row) /\ row.ext \in VideoExts THEN 1 ELSE 0),
        !.no_media = @ + (IF row.ext = "" THEN 1 ELSE 0)]

MediaStats(st, row) ==
    [st EXCEPT
        !.with_media = @ + (IF HasMedia(row) THEN 1 ELSE 0),
        !.images = @ + (IF HasMedia(row) /\ row.ext \in ImageExts THEN 1 ELSE 0),
        !.videos = @ + (IF HasMedia(row) /\ row.ext \in VideoExts THEN 1 ELSE 0),
        !.no_media = @ + (IF HasMedia(row) THEN 0 ELSE 1)]

TypeStats(st, row) ==
    IF row.src = "MasterMapData"
    THEN (IF row.att THEN [st EXCEPT !.att_location = @ + 1]
          ELSE [st EXCEPT !.ankle_monitor = @ + 1])
    ELSE st

RenderRow(r, e) ==
    IF RowRaises(e.row) THEN r
    ELSE LET row == e.row
             t == MarkerType(row)
             marker == [id |-> e.idx, lat |-> row.lat, lon |-> row.lon,
                        title |-> row.title]
             st == TypeStats(MediaStats(r.stats, row), row)
         IN  [clusters |-> [r.clusters EXCEPT ![t] = @ \cup {marker}],
              circles |->
                 IF AccuracyPositive(row)
                 THEN r.circles \cup
                        {[id |-> e.idx, lat |-> row.lat, lon |-> row.lon,
                          radius |-> row.acc,
                          color |-> CircleColor(FoliumColor(row))]}
                 ELSE r.circles,
              marker_data |->
                 Append(r.marker_data,
                        [lat |-> row.lat, lon |-> row.lon, type |-> t,
                         datetime |-> DatetimeText(row.datetime),
                         title |-> row.title]),
              stats |-> [st EXCEPT !.total = @ + 1]]

RECURSIVE RenderRows(_, _, _)
RenderRows(r, frame, k) ==
    IF k > Len(frame) THEN r
    ELSE RenderRows(RenderRow(r, frame[k]), frame, k + 1)

-----------------------------------------------------------------------------
(* add_sidebar_to_html: the chronological tree *)

\* pd.to_datetime(..., errors='coerce')
ParseDatetime(cell) == IF cell[1] = "ts" THEN cell ELSE NaT

DayOf(t) == ((t - 1) \div SlotsPerDay) + 1
SlotOf(t) == (t - 1) % SlotsPerDay

\* the orders a sequence can be put in
RECURSIVE Arrangements(_)
Arrangements(s) ==
    IF s = <<>> THEN {<<>>}
    ELSE UNION {{<<s[i]>> \o rest :
                    rest \in Arrangements(SubSeq(s, 1, i - 1)
                                          \o SubSeq(s, i + 1, Len(s)))} :
                i \in 1..Len(s)}

\* df_sorted.sort_values('datetime') with the default kind='quicksort':
\* ascending, NaT last in frame order; the sort is not stable, the rows of one
\* timestamp come out in whatever order the algorithm leaves them
RECURSIVE SortOutcomesFrom(_, _)
SortOutcomesFrom(frame, t) ==
    IF t > MaxTime
    THEN {SelectSeq(frame, LAMBDA e : ParseDatetime(e.row.datetime) = NaT)}
    ELSE {same \o later :
            same \in Arrangements(
                        SelectSeq(frame, LAMBDA e : e.row.datetime = <<"ts", t>>)),
            later \in SortOutcomesFrom(frame, t + 1)}

SortOutcomes(frame) == SortOutcomesFrom(frame, 1)

\* the outcome that keeps the rows of one timestamp in frame order (the one an
\* insertion sort gives, which is what NumPy runs on a frame of 16 rows or less)
RECURSIVE SortFrom(_, _)
SortFrom(frame, t) ==
    IF t > MaxTime
    THEN SelectSeq(frame, LAMBDA e : ParseDatetime(e.row.datetime) = NaT)
    ELSE SelectSeq(frame, LAMBDA e : e.row.datetime = <<"ts", t>>)
         \o SortFrom(frame, t + 1)

SortByDatetime(frame) == SortFrom(frame, 1)

\* str(row.get(date_col, 'Unknown Date')) if date_col in row.index else ...
DateText(cell) ==
    IF cell = <<"absent", 0>> THEN <<"Unknown Date", 0>> ELSE cell

\* str(row.get(time_col, '')) if time_col in row.index else ''
TimeText(cell) ==
    IF cell = <<"absent", 0>> THEN EmptyAttr ELSE cell

TreeDate(row) ==
    IF ParseDatetime(row.datetime) # NaT
    THEN <<"ymd", DayOf(row.datetime[2])>>
    ELSE DateText(row.date)

TreeTime(row) ==
    IF ParseDatetime(row.datetime) # NaT
    THEN <<"hms", SlotOf(row.datetime[2])>>
    ELSE TimeText(row.time)

\* if date and date != 'nan'
DateKept(date) == date # NaNCell

\* the data-type the sidebar writes on a .file-item
FileType(row) ==
    IF row.src = "MasterMapData"
    THEN (IF row.att THEN "att_location" ELSE "ankle_monitor")
    ELSE (IF row.ext \in SidebarVideoExts THEN "video" ELSE "image")

\* f"{item['lat']}" of a numpy float: Python's repr
PyFloatStr(v) == v

TreeEntry(e) ==
    [idx |-> e.idx, date |-> TreeDate(e.row), time |-> TreeTime(e.row),
     lat |-> PyFloatStr(e.row.latitude), lon |-> PyFloatStr(e.row.longitude),
     title |-> e.row.sideTitle,
     type |-> FileType(e.row),
     datetime |-> IF ParseDatetime(e.row.datetime) # NaT
                  THEN e.row.datetime ELSE EmptyAttr]

\* the loop over df_sorted.iterrows()
TreeEntriesOf(sorted) ==
    LET all == [i \in 1..Len(sorted) |-> TreeEntry(sorted[i])]
    IN  SelectSeq(all, LAMBDA x : DateKept(x.date))

TreeEntries(frame) == TreeEntriesOf(SortByDatetime(frame))

\* list(tree.keys()): the dates in the order of their first entry
RECURSIVE DatesInOrder(_, _, _)
DatesInOrder(entries, k, acc) ==
    IF k > Len(entries) THEN acc
    ELSE DatesInOrder(entries, k + 1,
            IF \E j \in 1..Len(acc) : acc[j] = entries[k].date THEN acc
            ELSE Append(acc, entries[k].date))

\* sorted(times.keys()) compares strings: '' < 'HH:MM:SS' < 'nan'
TimeRank(time) ==
    CASE time = EmptyAttr -> 0
      [] time[1] = "hms" -> time[2] + 1
      [] OTHER -> SlotsPerDay + 1

RECURSIVE SortedTimes(_)
SortedTimes(S) ==
    IF S = {} THEN <<>>
    ELSE LET first == CHOOSE x \in S : \A y \in S : TimeRank(x) <= TimeRank(y)
         IN  <<first>> \o SortedTimes(S \ {first})

RECURSIVE Flatten(_)
Flatten(ss) == IF ss = <<>> THEN <<>> ELSE Head(ss) \o Flatten(Tail(ss))

DateGroupItems(entries, date) ==
    LET times == SortedTimes({entries[i].time :
                     i \in {j \in 1..Len(entries) : entries[j].date = date}})
    IN  Flatten([k \in 1..Len(times) |->
            SelectSeq(entries,
                      LAMBDA x : x.date = date /\ x.time = times[k])])

\* the .file-item elements in document order, given the sorted frame
SidebarLeavesOf(sorted) ==
    LET entries == TreeEntriesOf(sorted)
        dates == DatesInOrder(entries, 1, <<>>)
    IN  Flatten([k \in 1..Len(dates) |-> DateGroupItems(entries, dates[k])])

\* the document when the sort keeps the rows of one timestamp in frame order
SidebarLeaves(frame) == SidebarLeavesOf(SortByDatetime(frame))

-----------------------------------------------------------------------------
(* The page: the script injected by create_html_map (window.allMarkers) *)

RECURSIVE ById(_)
ById(S) ==
    IF S = {} THEN <<>>
    ELSE LET first == CHOOSE m \in S : \A n \in S : m.id <= n.id
         IN  <<first>> \o ById(S \ {first})

\* variant: the entry takes its type from the marker_data entry found at the
\* marker's coordinates
ClusterMarkersTypedByData(cl, data, c) ==
    LET found == SelectSeq(ById(cl[c]),
                    LAMBDA m : \E i \in 1..Len(data) :
                                   data[i].lat = m.lat /\ data[i].lon = m.lon)
        first(m) == CHOOSE i \in 1..Len(data) :
                       /\ data[i].lat = m.lat /\ data[i].lon = m.lon
                       /\ \A j \in 1..(i - 1) :
                              ~(data[j].lat = m.lat /\ data[j].lon = m.lon)
    IN  [i \in 1..Len(found) |->
            [marker |-> found[i], lat |-> found[i].lat, lon |-> found[i].lon,
             type |-> data[first(found[i])].type,
             datetime |-> data[first(found[i])].datetime]]

\* cluster.eachLayer(...): one entry per marker found in the cluster whose
\* coordinates window.allMarkersData.find(...) finds
ClusterMarkers(cl, data, c) ==
    LET found == SelectSeq(ById(cl[c]),
                    LAMBDA m : \E i \in 1..Len(data) :
                                   data[i].lat = m.lat /\ data[i].lon = m.lon)
        first(m) == CHOOSE i \in 1..Len(data) :
                       /\ data[i].lat = m.lat /\ data[i].lon = m.lon
                       /\ \A j \in 1..(i - 1) :
                              ~(data[j].lat = m.lat /\ data[j].lon = m.lon)
    IN  [i \in 1..Len(found) |->
            [marker |-> found[i], lat |-> found[i].lat, lon |-> found[i].lon,
             type |-> c, datetime |-> data[first(found[i])].datetime]]

BuildAllMarkers(cl, data) ==
    ClusterMarkers(cl, data, "image") \o ClusterMarkers(cl, data, "video")
    \o ClusterMarkers(cl, data, "att_location")
    \o ClusterMarkers(cl, data, "ankle_monitor")

-----------------------------------------------------------------------------
(* The page: applyFilters *)

\* ids of the elements the sidebar markup of add_sidebar_to_html carries
SidebarIds ==
    {"sidebar", "sidebar-header", "sidebar-content", "filter-both",
     "filter-images", "filter-videos", "filter-att", "filter-ankle",
     "time-filter-start", "time-filter-end", "sidebar-toggle"}

\* ids applyFilters passes to document.getElementById
LookedUpIds ==
    {"filter-both", "filter-images", "filter-videos", "filter-att",
     "filter-ankle", "time-filter-start", "time-filter-end", "visible-count",
     "total-count"}

DefaultFilter ==
    [media |-> "both", showATT |-> TRUE, showAnkle |-> TRUE,
     timeStart |-> EmptyAttr, timeEnd |-> EmptyAttr]

FilterTimes == {EmptyAttr} \cup {<<"ts", t>> : t \in 1..MaxDocTime}

showBoth(f) == f.media = "both"
showImages(f) == f.media = "images"
showVideos(f) == f.media = "videos"

\* timeStart || timeEnd
TimeFilterActive(f) == f.timeStart # EmptyAttr \/ f.timeEnd # EmptyAttr

\* variant: the media selector alone decides, for event items too
TypeMatchMediaOnly(type, f) ==
    showBoth(f) \/ (type = "image" /\ showImages(f))
                \/ (type = "video" /\ showVideos(f))

TypeMatch(type, f) ==
    IF type = "att_location" THEN f.showATT
    ELSE IF type = "ankle_monitor" THEN f.showAnkle
    ELSE showBoth(f) \/ (type = "image" /\ showImages(f))
                     \/ (type = "video" /\ showVideos(f))

\* new Date(itemDateTime) against new Date(timeStart), new Date(timeEnd)
\* variant: both bounds exclusive
TimeMatchExclusive(itemDateTime, f) ==
    IF itemDateTime # EmptyAttr /\ TimeFilterActive(f)
    THEN /\ ~(f.timeStart # EmptyAttr /\ itemDateTime[2] <= f.timeStart[2])
         /\ ~(f.timeEnd # EmptyAttr /\ itemDateTime[2] >= f.timeEnd[2])
    ELSE TRUE

TimeMatch(itemDateTime, f) ==
    IF itemDateTime # EmptyAttr /\ TimeFilterActive(f)
    THEN /\ ~(f.timeStart # EmptyAttr /\ itemDateTime[2] < f.timeStart[2])
         /\ ~(f.timeEnd # EmptyAttr /\ itemDateTime[2] > f.timeEnd[2])
    ELSE TRUE

\* a JavaScript number in a template literal: an integral value has no ".0"
JsNumberStr(v) ==
    CASE v = "-74.0" -> "-74"
      [] v = "40.0" -> "40"
      [] OTHER -> v

\* the type conditions of the marker branches
MarkerTypeShown(type, f) ==
    \/ type = "image" /\ (showImages(f) \/ showBoth(f))
    \/ type = "video" /\ (showVideos(f) \/ showBoth(f))
    \/ type = "att_location" /\ f.showATT
    \/ type = "ankle_monitor" /\ f.showAnkle

\* window.map_object && window.imageCluster && ... : set by the injected script
GlobalsPresent == pc = "page"

FilteredCoords(items, f) ==
    {<<items[i].lat, items[i].lon>> :
        i \in {j \in 1..Len(items) :
                 TypeMatch(items[j].type, f) /\ TimeMatch(items[j].datetime, f)}}

\* variant: a marker is re-added when the tree item of its own record passes
RebuiltClustersByRecord(items, markers, f) ==
    [c \in ClusterNames |->
        {markers[i].marker :
            i \in {j \in 1..Len(markers) :
                     /\ \E k \in 1..Len(items) :
                            /\ items[k].idx = markers[j].marker.id
                            /\ TypeMatch(items[k].type, f)
                            /\ TimeMatch(items[k].datetime, f)
                     /\ markers[j].type = c
                     /\ MarkerTypeShown(c, f)}}]

\* the record-level branch: clearLayers on the four clusters, then addTo
RebuiltClusters(items, markers, f) ==
    LET coords == FilteredCoords(items, f)
    IN  [c \in ClusterNames |->
            {markers[i].marker :
                i \in {j \in 1..Len(markers) :
                         /\ <<JsNumberStr(markers[j].lat),
                              JsNumberStr(markers[j].lon)>> \in coords
                         /\ markers[j].type = c
                         /\ MarkerTypeShown(c, f)}}]

\* the layer-level branch: addLayer / removeLayer of whole clusters
LayersFor(f) ==
    [c \in ClusterNames |-> MarkerTypeShown(c, f)]

\* variant: without a time bound, the layer of an unselected type is toggled
\* instead of removed
MapPhaseToggling(f, cl, att, items, markers) ==
    IF ~GlobalsPresent THEN [clusters |-> cl, attached |-> att]
    ELSE IF TimeFilterActive(f)
    THEN [clusters |-> RebuiltClusters(items, markers, f),
          attached |-> [c \in ClusterNames |-> TRUE]]
    ELSE [clusters |-> cl,
          attached |-> [c \in ClusterNames |->
                           IF MarkerTypeShown(c, f) THEN TRUE ELSE ~att[c]]]

MapPhase(f, cl, att, items, markers) ==
    IF ~GlobalsPresent THEN [clusters |-> cl, attached |-> att]
    ELSE IF TimeFilterActive(f)
    THEN [clusters |-> RebuiltClusters(items, markers, f),
          attached |-> [c \in ClusterNames |-> TRUE]]
    ELSE [clusters |-> cl, attached |-> LayersFor(f)]

ItemPhase(f, items) ==
    [i \in 1..Len(items) |->
        IF TypeMatch(items[i].type, f) /\ TimeMatch(items[i].datetime, f)
        THEN "block" ELSE "none"]

\* document.getElementById('visible-count').textContent = ... raises a
\* TypeError when the element is absent, and applyFilters ends there
CountPhaseCompletes ==
    "visible-count" \in SidebarIds /\ "total-count" \in SidebarIds

TimeGroups(items) == {<<items[i].date, items[i].time>> : i \in 1..Len(items)}
DateGroups(items) == {items[i].date : i \in 1..Len(items)}

\* style="display: block;" or no "display: none" in the style attribute
Shown(display) == display # "none"

TimeGroupPhase(f, items, shownItems) ==
    [g \in TimeGroups(items) |->
        IF /\ ~\E i \in 1..Len(items) :
                  <<items[i].date, items[i].time>> = g /\ Shown(shownItems[i])
           /\ (~showImages(f) \/ ~showVideos(f))
        THEN "none" ELSE "block"]

DateGroupPhase(f, items, shownGroups) ==
    [d \in DateGroups(items) |->
        IF /\ ~\E g \in TimeGroups(items) : g[1] = d /\ Shown(shownGroups[g])
           /\ (~showImages(f) \/ ~showVideos(f))
        THEN "none" ELSE "block"]

ApplyFilters(f) ==
    LET m == MapPhase(f, clusters, attached, leaves, allMarkers)
        shownItems == ItemPhase(f, leaves)
        shownGroups == TimeGroupPhase(f, leaves, shownItems)
    IN  /\ clusters' = m.clusters
        /\ attached' = m.attached
        /\ itemDisplay' = shownItems
        /\ IF CountPhaseCompletes
           THEN /\ timeGroupDisplay' = shownGroups
                /\ dateGroupDisplay' = DateGroupPhase(f, leaves, shownGroups)
           ELSE UNCHANGED <<timeGroupDisplay, dateGroupDisplay>>
        /\ applied' = TRUE
        /\ reapplied' = (applied /\ f = filter)
        /\ threw' = ~CountPhaseCompletes
        /\ filter' = f

-----------------------------------------------------------------------------
(* The generator as a state machine *)

\* map_viewer is not running
NoViewer == [pc |-> "off"]

NoPage ==
    /\ allMarkers = <<>>
    /\ filter = DefaultFilter
    /\ timerPending = FALSE
    /\ applied = FALSE
    /\ reapplied = FALSE
    /\ threw = FALSE

Init ==
    /\ viewer = NoViewer
    /\ inputFile \in InputFiles
    /\ cols \in ColumnChoices
    /\ masterExists \in BOOLEAN
    /\ hasDateCol \in BOOLEAN
    \* a file that is not on disk has no rows; the runs on anything but a .csv
    \* on disk read with the default column names are the short ones
    /\ primary \in (IF ~inputFile.exists THEN {<<>>}
                    ELSE SeqsUpTo(PrimaryRows,
                            IF inputFile = CsvOnDisk /\ cols = "default"
                            THEN MaxRows ELSE MaxAltRows))
    /\ master \in (IF masterExists
                   THEN SeqsUpTo(MasterRows,
                           (IF inputFile = CsvOnDisk /\ cols = "default"
                            THEN MaxRows ELSE MaxAltRows)
                              - Len(primary))
                   ELSE {<<>>})
    \* a row with an accuracy cell, or with a file that is neither an image nor
    \* a video, is the first row of the primary source
    /\ \A i \in 2..Len(primary) :
          primary[i].acc = "nan" /\ primary[i].ext # ".pdf"
    \* the merge gives the frame a date column, empty where the primary source
    \* has none: with a secondary source only the cells tell the two apart
    /\ masterExists => hasDateCol
    /\ hasDateCol \/ \A i \in 1..Len(primary) : primary[i].date = NaNCell
    /\ pc = "load"
    /\ df = <<>>
    /\ pos = 1
    /\ clusters = EmptyClusters
    /\ attached = [c \in ClusterNames |-> FALSE]
    /\ circles = {}
    /\ marker_data = <<>>
    /\ stats = EmptyStats
    /\ leaves = <<>>
    /\ itemDisplay = <<>>
    /\ timeGroupDisplay = <<>>
    /\ dateGroupDisplay = <<>>
    /\ NoPage

\* lines 929-1099: read and merge the sources, drop the rows without
\* coordinates, return None when none is left, else create the map and its layers
LoadInputs ==
    /\ pc = "load"
    /\ IF ~Readable(inputFile)
       THEN pc' = "none" /\ UNCHANGED <<df, attached>>
       ELSE LET frame == DropNa(MergeFrames(primary, master, masterExists,
                                            hasDateCol, cols))
            IN  /\ df' = frame
                /\ IF frame = <<>>
                   THEN pc' = "none" /\ UNCHANGED attached
                   ELSE /\ pc' = "render"
                        /\ attached' = [c \in ClusterNames |-> TRUE]
    /\ UNCHANGED <<viewer, inputFile, cols, primary, master, masterExists, hasDateCol, pos, clusters,
                   circles, marker_data, stats, leaves, itemDisplay,
                   timeGroupDisplay, dateGroupDisplay>>
    /\ UNCHANGED <<allMarkers, filter, timerPending, applied, reapplied, threw>>

\* lines 1157-1367: one row of the marker loop
RenderNext ==
    /\ pc = "render"
    /\ pos <= Len(df)
    /\ LET r == RenderRow([clusters |-> clusters, circles |-> circles,
                           marker_data |-> marker_data, stats |-> stats],
                          df[pos])
       IN  /\ clusters' = r.clusters
           /\ circles' = r.circles
           /\ marker_data' = r.marker_data
           /\ stats' = r.stats
    /\ pos' = pos + 1
    /\ UNCHANGED <<viewer, inputFile, cols, primary, master, masterExists, hasDateCol, pc, df,
                   leaves,
                   attached, itemDisplay, timeGroupDisplay, dateGroupDisplay>>
    /\ UNCHANGED <<allMarkers, filter, timerPending, applied, reapplied, threw>>

NewDisplays(items) ==
    /\ itemDisplay' = [i \in 1..Len(items) |-> ""]
    /\ timeGroupDisplay' = [g \in TimeGroups(items) |-> ""]
    /\ dateGroupDisplay' = [d \in DateGroups(items) |-> ""]

\* lines 1369-1494: save the map, inject the cluster script, add the sidebar
FinishMap ==
    /\ pc = "render"
    /\ pos > Len(df)
    /\ pc' = "done"
    /\ \E sorted \in SortOutcomes(df) :
          /\ leaves' = SidebarLeavesOf(sorted)
          /\ NewDisplays(SidebarLeavesOf(sorted))
    /\ UNCHANGED <<viewer, inputFile, cols, primary, master, masterExists, hasDateCol, df, pos,
                   clusters, circles, marker_data, stats, attached>>
    /\ UNCHANGED <<allMarkers, filter, timerPending, applied, reapplied, threw>>

Next == LoadInputs \/ RenderNext \/ FinishMap

Spec == Init /\ [][Next]_vars

-----------------------------------------------------------------------------
(* The generated document in the browser *)

\* the rows of the documents the page is run on: images dated at the first
\* two slots and undated, a video, an event of each kind
DocPrimaryRows ==
    {r \in PrimaryRows :
        /\ r.lat # "" /\ r.lon # "" /\ r.date = NaNCell
        /\ r.exists /\ r.acc = "nan"
        /\ r.ext \in {".jpg", ".mp4"}
        /\ r.datetime \in {NaNCell, <<"ts", 1>>, <<"ts", 2>>}}

DocMasterRows ==
    {r \in MasterRows :
        /\ r.lat # "" /\ r.lon # "" /\ r.acc = "5.0"
        /\ r.datetime = <<"ts", 1>>}

\* the state create_html_map leaves when it is run on the given sources
Generated(prim, mast, withMaster, dateCol) ==
    LET frame == DropNa(MergeFrames(prim, mast, withMaster, dateCol, "default"))
        r == RenderRows(EmptyRender, frame, 1)
    IN  /\ viewer = NoViewer
        /\ inputFile = CsvOnDisk
        /\ cols = "default"
        /\ primary = prim /\ master = mast
        /\ masterExists = withMaster /\ hasDateCol = dateCol
        /\ frame # <<>>
        /\ pc = "done"
        /\ df = frame
        /\ pos = Len(frame) + 1
        /\ clusters = r.clusters
        /\ attached = [c \in ClusterNames |-> TRUE]
        /\ circles = r.circles
        /\ marker_data = r.marker_data
        /\ stats = r.stats
        /\ leaves = SidebarLeaves(frame)
        /\ itemDisplay = [i \in 1..Len(SidebarLeaves(frame)) |-> ""]
        /\ timeGroupDisplay = [g \in TimeGroups(SidebarLeaves(frame)) |-> ""]
        /\ dateGroupDisplay = [d \in DateGroups(SidebarLeaves(frame)) |-> ""]

DocInit ==
    /\ \E withMaster \in BOOLEAN :
       \E prim \in SeqsUpTo(DocPrimaryRows, MaxDocRows) :
       \E mast \in (IF withMaster
                    THEN SeqsUpTo(DocMasterRows, MaxDocRows - Len(prim))
                    ELSE {<<>>}) :
            Generated(prim, mast, withMaster, FALSE)
    /\ NoPage

genOutput == <<viewer, inputFile, cols, primary, master, masterExists, hasDateCol, pc, df, pos,
               circles, marker_data, stats, leaves>>

\* the document's scripts run: the sidebar script, then the injected script
\* (lines 1421-1485), then DOMContentLoaded arms the timer
LoadPage ==
    /\ pc = "done"
    /\ pc' = "page"
    /\ allMarkers' = BuildAllMarkers(clusters, marker_data)
    /\ timerPending' = TRUE
    /\ UNCHANGED <<viewer, inputFile, cols, primary, master, masterExists, hasDateCol, df, pos,
                   circles, marker_data, stats, leaves>>
    /\ UNCHANGED <<clusters, attached, filter, itemDisplay, timeGroupDisplay,
                   dateGroupDisplay, applied, reapplied, threw>>

\* variant: the entries of the markers that are not shown are dropped from
\* window.allMarkers
HandlerSplicing(f) ==
    /\ pc \in {"loading", "page"}
    /\ ApplyFilters(f)
    /\ allMarkers' = SelectSeq(allMarkers, LAMBDA m : MarkerTypeShown(m.type, f))
    /\ UNCHANGED genOutput

\* variant: the circles of the records whose marker is off the map are taken
\* out of the accuracy group
HandlerHidingCircles(f) ==
    /\ pc \in {"loading", "page"}
    /\ ApplyFilters(f)
    /\ circles' = {c \in circles :
                     \E k \in ClusterNames :
                         attached'[k] /\ \E m \in clusters'[k] : m.id = c.id}
    /\ UNCHANGED <<viewer, inputFile, cols, primary, master, masterExists, hasDateCol, pc, df,
                   pos, marker_data, stats, leaves, allMarkers>>

Handler(f) ==
    /\ pc \in {"loading", "page"}
    /\ ApplyFilters(f)
    /\ UNCHANGED <<genOutput, allMarkers>>

\* setTimeout(function() { applyFilters(); }, 100)
TimerFires ==
    /\ timerPending
    /\ timerPending' = FALSE
    /\ Handler(filter)

\* onchange of the media-filter radio buttons
SelectMedia(m) ==
    /\ m # filter.media
    /\ Handler([filter EXCEPT !.media = m])
    /\ UNCHANGED timerPending

\* onchange of the filter-att and filter-ankle checkboxes
ToggleATT ==
    /\ Handler([filter EXCEPT !.showATT = ~@])
    /\ UNCHANGED timerPending

ToggleAnkle ==
    /\ Handler([filter EXCEPT !.showAnkle = ~@])
    /\ UNCHANGED timerPending

\* onchange of the two datetime-local inputs
SetTimeStart(v) ==
    /\ v # filter.timeStart
    /\ Handler([filter EXCEPT !.timeStart = v])
    /\ UNCHANGED timerPending

SetTimeEnd(v) ==
    /\ v # filter.timeEnd
    /\ Handler([filter EXCEPT !.timeEnd = v])
    /\ UNCHANGED timerPending

\* onclick of the Clear Time Filter button
ClearTimeFilter ==
    /\ Handler([filter EXCEPT !.timeStart = EmptyAttr, !.timeEnd = EmptyAttr])
    /\ UNCHANGED timerPending

DocNext ==
    \/ LoadPage
    \/ TimerFires
    \/ \E m \in {"both", "images", "videos"} : SelectMedia(m)
    \/ ToggleATT
    \/ ToggleAnkle
    \/ \E v \in FilterTimes : SetTimeStart(v)
    \/ \E v \in FilterTimes : SetTimeEnd(v)
    \/ ClearTimeFilter

DocSpec == DocInit /\ [][DocNext]_vars

\* the page of a document whose records are images and a video at two places,
\* one of them at a whole-degree longitude
KeyRows ==
    {r \in PrimaryRowType :
        /\ r.lat = "40.5" /\ r.lon # "" /\ r.date = NaNCell
        /\ r.exists /\ r.acc = "nan"
        /\ r.datetime \in {<<"ts", 1>>, <<"ts", 2>>}
        /\ r.ext \in {".jpg", ".mp4"}
        /\ r.ext = ".mp4" => r.lon = "-74.5" /\ r.datetime = <<"ts", 1>>}

KeyInit ==
    /\ \E prim \in SeqsUpTo(KeyRows, MaxKeyRows) :
            Generated(prim, <<>>, FALSE, FALSE)
    /\ NoPage

KeySpec == KeyInit /\ [][DocNext]_vars

-----------------------------------------------------------------------------
(* The document while it loads: the sidebar and its script stand before the *)
(* map's script in the document, so the controls are live before the map,   *)
(* its clusters and window.allMarkers exist                                  *)

\* the browser has parsed the sidebar and the script that defines applyFilters
OpenPage ==
    /\ pc = "done"
    /\ pc' = "loading"
    /\ UNCHANGED <<viewer, inputFile, cols, primary, master, masterExists, hasDateCol, df, pos,
                   circles, marker_data, stats, leaves>>
    /\ UNCHANGED <<clusters, attached, filter, itemDisplay, timeGroupDisplay,
                   dateGroupDisplay, applied, reapplied, threw>>
    /\ UNCHANGED <<allMarkers, timerPending>>

\* the map's script runs with the injected lines 1421-1485, then
\* DOMContentLoaded arms the timer
ScriptsRun ==
    /\ pc = "loading"
    /\ pc' = "page"
    /\ allMarkers' = BuildAllMarkers(clusters, marker_data)
    /\ timerPending' = TRUE
    /\ UNCHANGED <<viewer, inputFile, cols, primary, master, masterExists, hasDateCol, df, pos,
                   circles, marker_data, stats, leaves>>
    /\ UNCHANGED <<clusters, attached, filter, itemDisplay, timeGroupDisplay,
                   dateGroupDisplay, applied, reapplied, threw>>

\* the user works the controls
UserActs ==
    \/ \E m \in {"both", "images", "videos"} : SelectMedia(m)
    \/ ToggleATT
    \/ ToggleAnkle
    \/ \E v \in FilterTimes : SetTimeStart(v)
    \/ \E v \in FilterTimes : SetTimeEnd(v)
    \/ ClearTimeFilter

\* the user works the controls only while the document loads
LoadNext ==
    \/ OpenPage
    \/ (pc = "loading" /\ UserActs)
    \/ ScriptsRun
    \/ TimerFires

\* the browser runs the document's scripts to their end and fires the timer
LoadSpec ==
    /\ DocInit
    /\ [][LoadNext]_vars
    /\ WF_vars(ScriptsRun)
    /\ WF_vars(TimerFires)

-----------------------------------------------------------------------------
(* Views of a record: its marker on the map, its item in the sidebar *)

InCluster(id) == \E c \in ClusterNames : \E m \in clusters[c] : m.id = id

\* the marker is a member of a cluster that is a layer of the map
MapVisible(id) ==
    \E c \in ClusterNames : attached[c] /\ \E m \in clusters[c] : m.id = id

\* the record's .file-item is displayed
TreeVisible(id) ==
    \E i \in 1..Len(leaves) : leaves[i].idx = id /\ Shown(itemDisplay[i])

Filtered == pc = "page" /\ applied

RecordIds == {df[i].idx : i \in 1..Len(df)}

-----------------------------------------------------------------------------
(* C1 *)

\* C1: after applyFilters, in every filter state, a record's marker is
\* displayed on the map iff the record's tree item is displayed in the sidebar.
C1_FilterSymmetry ==
    Filtered => \A id \in RecordIds : MapVisible(id) <=> TreeVisible(id)

-----------------------------------------------------------------------------
(* C2 *)

\* C2: the markers on the map after applyFilters depend on the current
\* filter state only: with no time bound set (never set, or set and cleared),
\* every marker whose type passes the type selection is on the map.
C2_HistoryIndependence ==
    (Filtered /\ ~TimeFilterActive(filter)) =>
        \A i \in 1..Len(allMarkers) :
            MarkerTypeShown(allMarkers[i].type, filter)
                => MapVisible(allMarkers[i].marker.id)

-----------------------------------------------------------------------------
(* C3 *)

\* C3: while a start or end bound is set, a record without a timestamp is
\* hidden in the tree and on the map.
C3_UndatedHiddenUnderBound ==
    (Filtered /\ TimeFilterActive(filter)) =>
        \A i \in 1..Len(leaves) :
            leaves[i].datetime = EmptyAttr =>
                ~Shown(itemDisplay[i]) /\ ~MapVisible(leaves[i].idx)

-----------------------------------------------------------------------------
(* C4 *)

MediaRule(type, f) ==
    \/ f.media = "both"
    \/ f.media = "images" /\ type = "image"
    \/ f.media = "videos" /\ type = "video"

ToggleOf(type, f) ==
    IF type = "att_location" THEN f.showATT ELSE f.showAnkle

EventTypes == {"att_location", "ankle_monitor"}

\* C4: a tree item is displayed only if its type matches: the media rule
\* (show-all, or images-only and image, or videos-only and video) for an image
\* or video item, the item's own event toggle and nothing else for an event
\* item; with no time bound set it is displayed exactly then; and an event
\* marker is on the map only while its toggle is on.
C4_TypeMatch ==
    Filtered =>
        /\ \A i \in 1..Len(leaves) :
              LET t == leaves[i].type
                  match == IF t \in EventTypes THEN ToggleOf(t, filter)
                           ELSE MediaRule(t, filter)
              IN  /\ Shown(itemDisplay[i]) => match
                  /\ ~TimeFilterActive(filter) => (Shown(itemDisplay[i]) <=> match)
        /\ \A i \in 1..Len(allMarkers) :
              (allMarkers[i].type \in EventTypes
                 /\ MapVisible(allMarkers[i].marker.id))
                   => ToggleOf(allMarkers[i].type, filter)

\* images-only: an ATT item is displayed by its toggle, a video item is hidden
C4_Witness ==
    /\ Filtered
    /\ filter.media = "images" /\ filter.showATT
    /\ \E i \in 1..Len(leaves) :
          leaves[i].type = "att_location" /\ itemDisplay[i] = "block"
    /\ \E i \in 1..Len(leaves) :
          leaves[i].type = "video" /\ itemDisplay[i] = "none"

-----------------------------------------------------------------------------
(* C5 *)

InRange(t, f) ==
    /\ f.timeStart = EmptyAttr \/ f.timeStart[2] <= t
    /\ f.timeEnd = EmptyAttr \/ t <= f.timeEnd[2]

\* C5: a dated item whose type matches is displayed iff its timestamp lies
\* between the bounds, each bound inclusive, an unset bound no constraint.
C5_TimeMatch ==
    Filtered =>
        \A i \in 1..Len(leaves) :
            leaves[i].datetime # EmptyAttr =>
                (Shown(itemDisplay[i]) <=>
                    /\ TypeMatch(leaves[i].type, filter)
                    /\ InRange(leaves[i].datetime[2], filter))

\* an item on both bounds is displayed, one after the end bound is hidden
C5_Witness ==
    /\ Filtered
    /\ \E i \in 1..Len(leaves) :
          /\ leaves[i].datetime = filter.timeStart
          /\ leaves[i].datetime = filter.timeEnd
          /\ itemDisplay[i] = "block"
    /\ \E i \in 1..Len(leaves) :
          /\ leaves[i].datetime # EmptyAttr
          /\ leaves[i].datetime[2] > filter.timeEnd[2]
          /\ TypeMatch(leaves[i].type, filter)
          /\ itemDisplay[i] = "none"

-----------------------------------------------------------------------------
(* C6 *)

\* C6: an invocation of applyFilters that reads the controls the invocation
\* before it read leaves cluster membership, the attached layers and the
\* displayed tree items as they were.
C6_Idempotence ==
    [][(Filtered /\ applied' /\ filter' = filter) =>
          /\ clusters' = clusters
          /\ attached' = attached
          /\ itemDisplay' = itemDisplay]_vars

\* a repeated invocation under a time bound that keeps a marker off the map
C6_Witness ==
    /\ Filtered /\ reapplied
    /\ TimeFilterActive(filter)
    /\ \E i \in 1..Len(allMarkers) : ~InCluster(allMarkers[i].marker.id)
    /\ \E i \in 1..Len(allMarkers) : InCluster(allMarkers[i].marker.id)

-----------------------------------------------------------------------------
(* C7 *)

\* C7: after applyFilters a time-group is displayed iff one of its items is,
\* and a date-group is displayed iff one of its time-groups is.
C7_EmptyGroupSuppression ==
    Filtered =>
        /\ \A g \in TimeGroups(leaves) :
              Shown(timeGroupDisplay[g]) <=>
                 \E i \in 1..Len(leaves) :
                    <<leaves[i].date, leaves[i].time>> = g /\ Shown(itemDisplay[i])
        /\ \A d \in DateGroups(leaves) :
              Shown(dateGroupDisplay[d]) <=>
                 \E g \in TimeGroups(leaves) : g[1] = d /\ Shown(timeGroupDisplay[g])

-----------------------------------------------------------------------------
(* Views of a generator run *)

Finished == pc = "done"

\* the rows read from the two sources, before the coordinate filter
RawRows == MergeFrames(primary, master, masterExists, hasDateCol, cols)

RawIndex == 1..Len(RawRows)

HasCoordinates(row) == row.lat # "" /\ row.lon # ""

\* the markers made for the row labelled id, counted with their cluster
MarkersOf(id) ==
    {p \in UNION {{<<c, m>> : m \in clusters[c]} : c \in ClusterNames} :
        p[2].id = id}

LeavesOf(id) == {i \in 1..Len(leaves) : leaves[i].idx = id}

CirclesOf(id) == {c \in circles : c.id = id}

-----------------------------------------------------------------------------
(* map_viewer.main *)

MaxRequests == 2

\* the generator and the page are not part of a run of the viewer
NoGenerator ==
    /\ inputFile = CsvOnDisk /\ cols = "default"
    /\ primary = <<>> /\ master = <<>>
    /\ masterExists = FALSE /\ hasDateCol = FALSE
    /\ pc = "viewer"
    /\ df = <<>> /\ pos = 1
    /\ clusters = EmptyClusters
    /\ attached = [c \in ClusterNames |-> FALSE]
    /\ circles = {} /\ marker_data = <<>> /\ stats = EmptyStats
    /\ leaves = <<>> /\ itemDisplay = <<>>
    /\ timeGroupDisplay = <<>> /\ dateGroupDisplay = <<>>
    /\ NoPage

\* the working directory (Media, media_map.html), the bundled resource,
\* whether shutil.copy succeeds, whether port 8001 can be bound
ViewerInit ==
    /\ viewer \in [pc : {"start"}, media : BOOLEAN, mapFile : BOOLEAN,
                   bundled : BOOLEAN, copyWorks : BOOLEAN, portFree : BOOLEAN,
                   bound : {FALSE}, opened : {FALSE}, serving : {FALSE},
                   requests : {0}, status : {"running"}]
    /\ NoGenerator

\* lines 48-53: the Media folder
CheckMedia ==
    /\ viewer.pc = "start"
    /\ viewer' = [viewer EXCEPT !.pc = IF viewer.media THEN "map" ELSE "prompt"]
    /\ UNCHANGED <<genVars, docVars>>

\* variant: a missing map file is not looked for in the bundle
CheckMapSkipped ==
    /\ viewer.pc = "map"
    /\ viewer' = [viewer EXCEPT !.pc = "bind"]
    /\ UNCHANGED <<genVars, docVars>>

\* lines 56-72: media_map.html, copied from the bundled resource when absent
CheckMap ==
    /\ viewer.pc = "map"
    /\ viewer' =
          IF viewer.mapFile THEN [viewer EXCEPT !.pc = "bind"]
          ELSE IF viewer.bundled /\ viewer.copyWorks
          THEN [viewer EXCEPT !.pc = "bind", !.mapFile = TRUE]
          ELSE [viewer EXCEPT !.pc = "prompt"]
    /\ UNCHANGED <<genVars, docVars>>

\* line 81: socketserver.TCPServer(("", PORT), ...) binds, or raises OSError
BindPort ==
    /\ viewer.pc = "bind"
    /\ viewer' =
          IF viewer.portFree THEN [viewer EXCEPT !.pc = "bound", !.bound = TRUE]
          ELSE [viewer EXCEPT !.pc = "prompt"]
    /\ UNCHANGED <<genVars, docVars>>

\* line 89: webbrowser.open
OpenBrowser ==
    /\ viewer.pc = "bound"
    /\ viewer' = [viewer EXCEPT !.pc = "serve", !.opened = TRUE]
    /\ UNCHANGED <<genVars, docVars>>

\* line 100: httpd.serve_forever() answers a request
ServeRequest ==
    /\ viewer.pc = "serve"
    /\ viewer.requests < MaxRequests
    /\ viewer' = [viewer EXCEPT !.serving = TRUE, !.requests = @ + 1]
    /\ UNCHANGED <<genVars, docVars>>

\* lines 102-105: Ctrl+C while the server is up
Interrupt ==
    /\ viewer.pc \in {"bound", "serve"}
    /\ viewer' = [viewer EXCEPT !.pc = "exited", !.status = "0"]
    /\ UNCHANGED <<genVars, docVars>>

\* input("\nPress Enter to exit...") then sys.exit(1)
PressEnter ==
    /\ viewer.pc = "prompt"
    /\ viewer' = [viewer EXCEPT !.pc = "exited", !.status = "1"]
    /\ UNCHANGED <<genVars, docVars>>

ViewerNext ==
    \/ CheckMedia
    \/ CheckMap
    \/ BindPort
    \/ OpenBrowser
    \/ ServeRequest
    \/ Interrupt
    \/ PressEnter

ViewerSpec == ViewerInit /\ [][ViewerNext]_vars

-----------------------------------------------------------------------------
(* C8 *)

\* C8: the tree holds every row that survived the coordinate filter exactly
\* once: as many leaves as rows of the frame, one leaf for each row.
C8_LeafPerRecord ==
    Finished =>
        /\ Len(leaves) = Len(df)
        /\ \A id \in RecordIds : Cardinality(LeavesOf(id)) = 1

-----------------------------------------------------------------------------
(* C9 *)

\* C9: every input row with both coordinates yields exactly one marker and one
\* marker_data entry, every row missing a coordinate yields none, and the
\* number of dropped rows is the raw row count minus the produced records.
C9_OneRecordPerRow ==
    Finished =>
        /\ \A i \in RawIndex :
              Cardinality(MarkersOf(RawRows[i].idx)) =
                 (IF HasCoordinates(RawRows[i].row) THEN 1 ELSE 0)
        /\ Len(marker_data) =
              Cardinality({i \in RawIndex : HasCoordinates(RawRows[i].row)})
        /\ Cardinality({i \in RawIndex : ~HasCoordinates(RawRows[i].row)}) =
              Len(RawRows) - Len(marker_data)

\* the accuracy cell holds text float() rejects
AccuracyIsText(row) == row.acc = "bad"

Rendered(row) == HasCoordinates(row) /\ ~AccuracyIsText(row)

\* C9 amended: in a run that reaches its end, a row with both coordinates
\* whose rendering does not raise yields exactly one marker and one
\* marker_data entry; a row missing a coordinate, or whose rendering raises,
\* yields none; the rows dropped by the coordinate filter number the raw row
\* count minus the rows with both coordinates.
C9_OneRecordPerRenderedRow ==
    Finished =>
      LET raw == RawRows
      IN
        /\ \A i \in 1..Len(raw) :
              Cardinality(MarkersOf(raw[i].idx)) =
                 (IF Rendered(raw[i].row) THEN 1 ELSE 0)
        /\ Len(marker_data) =
              Cardinality({i \in 1..Len(raw) : Rendered(raw[i].row)})
        /\ stats.total = Len(marker_data)
        /\ Len(raw) - Len(df) =
              Cardinality({i \in 1..Len(raw) : ~HasCoordinates(raw[i].row)})
        /\ \A i \in 1..Len(df) : HasCoordinates(df[i].row)

\* a run with a row dropped for its coordinates, a row whose rendering raised
\* and a row that got its marker
C9_Witness ==
    /\ Finished
    /\ Len(df) < Len(RawRows)
    /\ 0 < Len(marker_data) /\ Len(marker_data) < Len(df)

-----------------------------------------------------------------------------
(* C10 *)

Isolated(frame) == SelectSeq(frame, LAMBDA e : ~AccuracyIsText(e.row))

\* C10: a row whose rendering raises leaves nothing in the output (no marker,
\* no circle, no tree leaf), and the output is the one the other rows give
\* when the failing row is absent.
C10_FailureIsolation ==
    Finished =>
        /\ \A i \in 1..Len(df) :
              AccuracyIsText(df[i].row) =>
                 /\ MarkersOf(df[i].idx) = {}
                 /\ CirclesOf(df[i].idx) = {}
                 /\ LeavesOf(df[i].idx) = {}
        /\ LET r == RenderRows(EmptyRender, Isolated(df), 1)
           IN  /\ clusters = r.clusters
               /\ circles = r.circles
               /\ marker_data = r.marker_data
               /\ stats = r.stats
        /\ leaves = SidebarLeaves(Isolated(df))

-----------------------------------------------------------------------------
(* C11 *)

\* the rows of the frame that got a marker: rendering them did not raise
RenderedIndex == {i \in 1..Len(df) : ~AccuracyIsText(df[i].row)}

\* a media row that names a file which is not on disk
MissingFile(row) == row.src = "MediaMarkers" /\ row.ext # "" /\ ~row.exists

\* a row with no media reference at all
NoReference(row) == row.ext = ""

\* C11: a media record naming a file that does not exist still gets its marker
\* and its marker_data entry, and the counter of the records without a media
\* reference does not count it.
C11_MissingFileCountedApart ==
    Finished =>
        /\ \A i \in 1..Len(df) :
              MissingFile(df[i].row) => Cardinality(MarkersOf(df[i].idx)) = 1
        /\ Len(marker_data) = Cardinality(RenderedIndex)
        /\ stats.no_media =
              Cardinality({i \in RenderedIndex : NoReference(df[i].row)})

-----------------------------------------------------------------------------
(* C12 *)

\* create_html_map returned None and left nothing behind: no map, no layer,
\* no record, no document
NoOutput ==
    /\ pc = "none"
    /\ clusters = EmptyClusters
    /\ attached = [c \in ClusterNames |-> FALSE]
    /\ circles = {}
    /\ marker_data = <<>>
    /\ stats = EmptyStats
    /\ leaves = <<>>

FatalInput ==
    \/ ~inputFile.exists
    \/ SuffixLower(inputFile.suffix) \notin {".csv", ".xlsx", ".xls"}

\* C12: when the input file does not exist or its extension is not csv, xlsx
\* or xls, the run ends with None and no output, and no row of either source
\* has entered the frame; when no row has coordinates the run ends with None
\* and no output as well.
C12_FatalInputErrors ==
    pc # "load" =>
        /\ FatalInput => (NoOutput /\ df = <<>>)
        /\ LET raw == RawRows
           IN  (\A i \in 1..Len(raw) : ~HasCoordinates(raw[i].row)) => NoOutput

\* a file with an unsupported extension whose only row has coordinates
C12_Witness ==
    /\ pc = "none"
    /\ inputFile = [exists |-> TRUE, suffix |-> ".txt"]
    /\ Len(primary) = 1 /\ HasCoordinates(primary[1])

-----------------------------------------------------------------------------
(* C13 *)

\* C13: a media record whose file name has a video extension is of category
\* video (its marker is in the video cluster) whether or not the file exists.
C13_VideoWhateverTheDisk ==
    Finished =>
        \A i \in RenderedIndex :
            (df[i].row.src = "MediaMarkers" /\ df[i].row.ext \in VideoExts)
                => \E m \in clusters["video"] : m.id = df[i].idx

-----------------------------------------------------------------------------
(* C14 *)

\* C14: the data-type on a record's tree leaf is the category of the cluster
\* that holds the record's marker.
C14_SingleCategory ==
    Finished =>
        \A i \in 1..Len(leaves) :
            \A c \in ClusterNames :
                (\E m \in clusters[c] : m.id = leaves[i].idx)
                    => c = leaves[i].type

-----------------------------------------------------------------------------
(* C15 *)

UnknownDate == <<"Unknown Date", 0>>

\* the keys of the date groups of a tree, in document order
GroupDates(items) == DatesInOrder(items, 1, <<>>)

\* where the 'Unknown Date' group stands among the date groups (0: no such group)
UnknownPlace(items) ==
    LET dates == GroupDates(items)
    IN  IF \E k \in 1..Len(dates) : dates[k] = UnknownDate
        THEN CHOOSE k \in 1..Len(dates) : dates[k] = UnknownDate
        ELSE 0

RowOrders(n) ==
    {q \in [1..n -> 1..n] : \A i, j \in 1..n : q[i] = q[j] => i = j}

\* C15: the date groups stand in ascending order of their dates, and the group
\* of the records without a usable timestamp stands at the same place whatever
\* the order of the input rows.
C15_DateGroupOrder ==
    Finished =>
        /\ LET dates == GroupDates(leaves)
           IN  \A i, j \in 1..Len(dates) :
                   (i < j /\ dates[i][1] = "ymd" /\ dates[j][1] = "ymd")
                       => dates[i][2] < dates[j][2]
        /\ \A q \in RowOrders(Len(df)) :
               UnknownPlace(SidebarLeaves([i \in 1..Len(df) |-> df[q[i]]]))
                   = UnknownPlace(leaves)

-----------------------------------------------------------------------------
(* C16 *)

NoTimestamp(row) == row.datetime \in {NaNCell, TextCell}

\* C16: every record whose timestamp is absent or unparseable has its one leaf
\* in the 'Unknown Date' group.
C16_UnknownDateBucket ==
    Finished =>
        \A i \in 1..Len(df) :
            NoTimestamp(df[i].row) =>
                /\ Cardinality(LeavesOf(df[i].idx)) = 1
                /\ \A k \in LeavesOf(df[i].idx) : leaves[k].date = UnknownDate

-----------------------------------------------------------------------------
(* C17 *)

\* C17: applyFilters run while the map and cluster globals are absent does not
\* raise, changes no cluster membership, attaches and detaches no layer, and
\* sets the display of the tree items from the filter state.
C17_AbsentGlobalsTolerated ==
    (pc = "loading" /\ applied) =>
        /\ ~threw
        /\ clusters = RenderRows(EmptyRender, df, 1).clusters
        /\ attached = [c \in ClusterNames |-> TRUE]
        /\ itemDisplay = ItemPhase(filter, leaves)

-----------------------------------------------------------------------------
(* C18 *)

\* what the filter state says of a record: its category is selected, and its
\* timestamp is within the bounds that are set
RecordMatches(row, f) ==
    /\ LET t == MarkerType(row)
       IN  IF t \in EventTypes THEN ToggleOf(t, f) ELSE MediaRule(t, f)
    /\ TimeFilterActive(f) =>
          /\ row.datetime[1] = "ts"
          /\ InRange(row.datetime[2], f)

\* the map shows the markers of the records the filter state selects
MapInLine ==
    \A i \in RenderedIndex :
        MapVisible(df[i].idx) <=> RecordMatches(df[i].row, filter)

\* C18: after applyFilters has run without the globals, a later invocation
\* brings the map in line with the filter state once the globals exist,
\* without the user doing anything more.
C18_DeferredRetry ==
    (pc = "loading" /\ applied) ~> (pc = "page" /\ MapInLine)

-----------------------------------------------------------------------------
(* C19 *)

\* C19: no invocation of applyFilters or clearTimeFilter changes the record
\* data: window.allMarkersData, the entries of window.allMarkers and the data
\* attributes of the tree items stay as they are.
C19_DataUntouched ==
    [][pc = "page" =>
          /\ marker_data' = marker_data
          /\ allMarkers' = allMarkers
          /\ leaves' = leaves]_vars

\* filtering has emptied a cluster of a record's marker and hidden an item
C19_Witness ==
    /\ Filtered
    /\ \E i \in 1..Len(itemDisplay) : itemDisplay[i] = "none"
    /\ \E i \in 1..Len(allMarkers) : ~InCluster(allMarkers[i].marker.id)

-----------------------------------------------------------------------------
(* C20 *)

\* a category is selected by the media selector or by its event toggle
CategorySelected(c, f) ==
    IF c \in EventTypes THEN ToggleOf(c, f) ELSE MediaRule(c, f)

\* a tree item passes the filter: its category is selected and its timestamp
\* is within the bounds that are set
ItemMatches(item, f) ==
    /\ CategorySelected(item.type, f)
    /\ TimeFilterActive(f) =>
          /\ item.datetime # EmptyAttr
          /\ InRange(item.datetime[2], f)

\* the markers of a category to re-add: the category is selected and an item
\* at the marker's coordinates passes the filter
MatchingMarkers(c, f) ==
    {allMarkers[i].marker :
        i \in {j \in 1..Len(allMarkers) :
                 /\ allMarkers[j].type = c
                 /\ CategorySelected(c, f)
                 /\ \E k \in 1..Len(leaves) :
                        /\ leaves[k].lat = allMarkers[j].lat
                        /\ leaves[k].lon = allMarkers[j].lon
                        /\ ItemMatches(leaves[k], f)}}

\* C20: with a start or end bound set, applyFilters leaves in each cluster
\* exactly the matching markers; with no bound set it leaves the membership of
\* every cluster as it was and attaches exactly the layers of the selected
\* categories.
C20_TwoTierDispatch ==
    [][pc = "page" =>
          IF TimeFilterActive(filter')
          THEN clusters' = [c \in ClusterNames |-> MatchingMarkers(c, filter')]
          ELSE /\ clusters' = clusters
               /\ attached' = [c \in ClusterNames |-> CategorySelected(c, filter')]]_vars

-----------------------------------------------------------------------------
(* C21 *)

EntriesOf(id) == {j \in 1..Len(allMarkers) : allMarkers[j].marker.id = id}

\* C21: a record that yields a marker is put in exactly one cluster; once the
\* page has loaded, window.allMarkers holds the marker exactly once, with the
\* type of the cluster it was found in; and whatever filtering has been done,
\* a marker is a member of no cluster but the one of its entry's type.
C21_ExactlyOneBucket ==
    /\ \A id \in RecordIds :
          /\ Cardinality(MarkersOf(id)) <= 1
          /\ (pc = "done" \/ (pc = "page" /\ ~applied))
                => Cardinality(MarkersOf(id)) = 1
          /\ pc = "page" => Cardinality(EntriesOf(id)) = 1
    /\ pc = "page" =>
          \A c \in ClusterNames :
              \A m \in clusters[c] :
                  \E j \in 1..Len(allMarkers) :
                      allMarkers[j].marker = m /\ allMarkers[j].type = c

\* a time bound is set and markers of two categories have been re-added
C21_Witness ==
    /\ Filtered /\ TimeFilterActive(filter)
    /\ clusters["image"] # {} /\ clusters["video"] # {}

-----------------------------------------------------------------------------
(* C22 *)

\* C22: within one time-of-day group of the tree, the records that share a
\* timestamp are listed in merge order (the rows of the primary source before
\* those of the secondary source, each in input order).
C22_TiesInMergeOrder ==
    Finished =>
        \A a, b \in 1..Len(leaves) :
            (/\ a < b
             /\ leaves[a].date = leaves[b].date
             /\ leaves[a].time = leaves[b].time
             /\ leaves[a].datetime = leaves[b].datetime)
                => leaves[a].idx < leaves[b].idx

-----------------------------------------------------------------------------
(* C23 *)

EventMarkers == clusters["att_location"] \cup clusters["ankle_monitor"]

MediaMarkers == clusters["image"] \cup clusters["video"]

\* C23: with the secondary source present, the merged sequence is the rows of
\* the primary source followed by the rows of the secondary source; a primary
\* row is tagged MediaMarkers and has accuracy 0, a secondary row is tagged
\* MasterMapData and has an empty media reference; no event record has a media
\* block or is counted as having media.
C23_Merge ==
    masterExists =>
      LET raw == RawRows
      IN
        /\ Len(raw) = Len(primary) + Len(master)
        /\ \A i \in 1..Len(primary) :
              LET row == raw[i].row
              IN  /\ row.src = "MediaMarkers" /\ row.acc = "0"
                  /\ row.lat = primary[i].lat /\ row.lon = primary[i].lon
                  /\ row.datetime = primary[i].datetime
                  /\ row.ext = primary[i].ext
        /\ \A j \in 1..Len(master) :
              LET row == raw[Len(primary) + j].row
              IN  /\ row.src = "MasterMapData" /\ row.ext = ""
                  /\ row.latitude = master[j].lat
                  /\ row.longitude = master[j].lon
                  /\ row.datetime = master[j].datetime
                  /\ row.att = master[j].att
        /\ pc \in {"render", "done"} =>
              \A i \in 1..Len(df) :
                  df[i].row.src = "MasterMapData" => ~HasMedia(df[i].row)
        /\ stats.with_media <= Cardinality(MediaMarkers)
        /\ stats.no_media >= Cardinality(EventMarkers)

\* a finished run on both sources, with a media record and an event record
C23_Witness ==
    /\ Finished /\ masterExists
    /\ \E i \in 1..Len(primary) : primary[i].acc = "5.0"
    /\ stats.with_media > 0
    /\ EventMarkers # {}

-----------------------------------------------------------------------------
(* C24 *)

\* C24: a rendered record has exactly one circle, at its coordinates and in
\* the colour mapped from its marker colour, iff its accuracy is positive, and
\* none otherwise; only event-sourced records have a circle.
C24_AccuracyCircle ==
    Finished =>
        \A i \in RenderedIndex :
            LET row == df[i].row
                own == CirclesOf(df[i].idx)
            IN  /\ row.acc = "5.0" =>
                      /\ Cardinality(own) = 1
                      /\ \A c \in own :
                            /\ c.lat = row.lat /\ c.lon = row.lon
                            /\ c.color = (IF row.src = "MediaMarkers" THEN "#0000FF"
                                          ELSE IF row.att THEN "#90EE90"
                                          ELSE "#FFA500")
                /\ row.acc # "5.0" => own = {}
                /\ own # {} => row.src = "MasterMapData"

-----------------------------------------------------------------------------
(* C25 *)

\* C25: the accuracy circles are outside the filter: no step of the page
\* (applyFilters from a control or from the timer, clearTimeFilter) adds,
\* removes or hides a circle of the accuracy group, so a circle stays displayed
\* while its record's marker and tree item are hidden.
C25_CirclesOutsideFilter ==
    [][pc = "page" =>
          /\ circles' = circles
          /\ \A id \in RecordIds :
                (CirclesOf(id) # {} /\ ~MapVisible(id)' /\ ~TreeVisible(id)')
                    => CirclesOf(id)' # {}]_vars

\* an event record is filtered out of the map and of the tree, its circle stays
C25_Witness ==
    /\ Filtered
    /\ \E id \in RecordIds :
          CirclesOf(id) # {} /\ ~MapVisible(id) /\ ~TreeVisible(id)

-----------------------------------------------------------------------------
(* C26 *)

\* `${lat},${lon}` as applyFilters writes it for a tree item and for a marker
ItemKey(item) == <<item.lat, item.lon>>

MarkerKey(e) == <<JsNumberStr(e.lat), JsNumberStr(e.lon)>>

\* C26: with a time bound set, a marker is a member of its cluster iff its own
\* category passes the type filter and some tree item with the identical
\* "lat,lon" key passes both the type match and the time match; so two markers
\* of one category at identical coordinates are both on the map or both off
\* it, even when only one of them is within the time range.
C26_CoordinateIdentity ==
    (Filtered /\ TimeFilterActive(filter)) =>
        /\ \A j \in 1..Len(allMarkers) :
              LET e == allMarkers[j]
              IN  (e.marker \in clusters[e.type]) <=>
                     /\ MarkerTypeShown(e.type, filter)
                     /\ \E i \in 1..Len(leaves) :
                            /\ ItemKey(leaves[i]) = MarkerKey(e)
                            /\ TypeMatch(leaves[i].type, filter)
                            /\ TimeMatch(leaves[i].datetime, filter)
        /\ \A j, k \in 1..Len(allMarkers) :
              (/\ allMarkers[j].type = allMarkers[k].type
               /\ allMarkers[j].lat = allMarkers[k].lat
               /\ allMarkers[j].lon = allMarkers[k].lon)
                 => (MapVisible(allMarkers[j].marker.id)
                        <=> MapVisible(allMarkers[k].marker.id))

\* two images at one place, one within the time range and one outside it, both
\* on the map
C26_Witness ==
    /\ Filtered /\ TimeFilterActive(filter)
    /\ \E j, k \in 1..Len(allMarkers) :
          /\ j # k
          /\ allMarkers[j].type = allMarkers[k].type
          /\ MarkerKey(allMarkers[j]) = MarkerKey(allMarkers[k])
          /\ MapVisible(allMarkers[j].marker.id)
          /\ MapVisible(allMarkers[k].marker.id)
          /\ \E a, b \in 1..Len(leaves) :
                /\ leaves[a].idx = allMarkers[j].marker.id
                /\ leaves[b].idx = allMarkers[k].marker.id
                /\ TimeMatch(leaves[a].datetime, filter)
                /\ ~TimeMatch(leaves[b].datetime, filter)

-----------------------------------------------------------------------------
(* C27 *)

\* C27: every element applyFilters looks up by id exists in the markup of the
\* sidebar, so each invocation runs all its phases in order (map, tree items,
\* counts, time groups, date groups) without raising.
C27_RunsToCompletion ==
    /\ LookedUpIds \subseteq SidebarIds
    /\ applied =>
          /\ ~threw
          /\ timeGroupDisplay = TimeGroupPhase(filter, leaves, itemDisplay)
          /\ dateGroupDisplay = DateGroupPhase(filter, leaves, timeGroupDisplay)

-----------------------------------------------------------------------------
(* C28 *)

\* C28: whatever lat_col, lon_col and title_col the generator is called with,
\* the coordinates and the title on a record's tree leaf are those of the
\* record's marker, and the rows of the secondary source that have coordinates
\* survive the coordinate filter.
C28_ColumnOverrides ==
    /\ Finished =>
          \A i \in 1..Len(leaves) :
              \A c \in ClusterNames :
                  \A m \in clusters[c] :
                      m.id = leaves[i].idx =>
                          /\ leaves[i].lat = m.lat
                          /\ leaves[i].lon = m.lon
                          /\ leaves[i].title = m.title
    /\ (pc # "load" /\ Readable(inputFile) /\ masterExists) =>
          \A j \in 1..Len(master) :
              (master[j].lat # "" /\ master[j].lon # "")
                  => \E k \in 1..Len(df) : df[k].idx = Len(primary) + j - 1

-----------------------------------------------------------------------------
(* C29 *)

\* C29: at the end of create_html_map, stats.total is the number of
\* marker_data entries and the number of markers in the four clusters,
\* total = with_media + no_media, att_location + ankle_monitor is the number
\* of event markers, and images + videos <= with_media.
C29_RunningTotals ==
    Finished =>
        /\ stats.total = Len(marker_data)
        /\ stats.total = Cardinality(MediaMarkers) + Cardinality(EventMarkers)
        /\ stats.total = stats.with_media + stats.no_media
        /\ stats.att_location + stats.ankle_monitor = Cardinality(EventMarkers)
        /\ stats.images + stats.videos <= stats.with_media

\* a finished run with an event, a row naming a missing file, and a file on
\* disk that is neither an image nor a video
C29_Witness ==
    /\ Finished
    /\ EventMarkers # {}
    /\ \E i \in 1..Len(df) : MissingFile(df[i].row)
    /\ stats.images + stats.videos < stats.with_media

-----------------------------------------------------------------------------
(* C30 *)

\* what the run found: no Media folder, no map file to be had, or no port
StartupFails ==
    \/ ~viewer.media
    \/ ~viewer.mapFile
    \/ ~viewer.portFree

\* C30: main binds the port and opens the browser only after the Media
\* folder exists and media_map.html is in the working directory (found there
\* or copied from the bundle); when either is missing or the port cannot be
\* bound, it exits with status 1 without having served or opened the browser.
C30_StartupOrder ==
    /\ (viewer.bound \/ viewer.opened \/ viewer.serving)
          => viewer.media /\ viewer.mapFile
    /\ viewer.opened => viewer.bound
    /\ viewer.serving => viewer.opened
    /\ (viewer.pc = "exited" /\ StartupFails) =>
          /\ viewer.status = "1"
          /\ ~viewer.bound /\ ~viewer.opened /\ ~viewer.serving

\* the map file was copied from the bundle and the server has answered
C30_Witness ==
    /\ viewer.serving /\ viewer.opened
    /\ viewer.bundled /\ viewer.copyWorks
    /\ viewer.requests = MaxRequests

====
